---- MODULE Spec2Model ----
(***************************************************************************)
(* Vector compression engine of Synapse: the Product Quantizer and the     *)
(* Scalar Quantizer of scripts/compression/compression_utils.py, and the   *)
(* two jobs scripts/compression/pq_train.py and compress.py.               *)
(*                                                                         *)
(* Matrices are sequences of rows, rows are sequences of integers.  Python *)
(* indices are 0-based: a code or a centroid number is kept 0-based, while *)
(* positions in TLA+ sequences are 1-based.                                *)
(***************************************************************************)
EXTENDS Integers, Sequences, FiniteSets, TLC

\* ------------------------------------------------------------------ bounds
MaxRows == 2                    \* rows of an encode / decode batch
MaxTrains == 2                  \* train calls in one run
SubspaceChoices == {1, 2}       \* n_subspaces arguments tried
CentroidChoices == {2, 257}     \* n_centroids arguments tried
DimChoices == {1, 2}            \* vector_dim arguments tried
EncodeRows == {<<1>>, <<0, 1>>, <<1, 1>>, <<0, 1, 1>>}
CodeRows == {<<0>>, <<1>>, <<0, 1>>}
SampleSizes == {1, 2}           \* n_samples arguments tried
TrainSets == { << <<0, 0>>, <<1, 1>> >>, << >> }

\* scalar quantizer: values are integers in units of 1e-8, the epsilon of
\* quantize, and every vector of SqValues has one column
MaxSqRows == 2                  \* rows of a fit / quantize / dequantize batch
SqValues == {0, 255, 256, 300}  \* coordinates handed to fit and quantize
SqBytes == {0, 254, 255}        \* bytes handed to dequantize

\* inputs of a caller that uses both quantizers
FrameVectors == { << <<1>> >>, << <<0, 1>> >> }
FrameCodes == { << <<1>> >> }
FrameFit == { << <<0>>, <<255>> >> }
FrameQuantize == { << <<255>> >>, << <<300>> >> }
FrameBytes == { << <<254>> >> }

\* ingestion: code row k is <<k>>, metadata row k has media_id 100 + k
MaxIngestRows == 4              \* rows of pq_codes.npy and of the metadata
BatchSizes == {1, 2, 3, 5000}   \* batch_size arguments tried

\* orchestrator
MaxCalls == 2                   \* process_and_embed invocations in one run
MediaIds == {"m1", "m2"}
MediaTypes == {"image", "audio"}

\* jobs: the embeddings file of a run, absent or an N x 2 matrix
MaxRuns == 2                    \* jobs started in one run
JobSamples == {2}               \* --samples arguments tried
EmbFiles == { [missing |-> TRUE],
              << >>,
              << <<0, 0>>, <<1, 1>> >>,
              << <<0, 1>>, <<1, 0>>, <<1, 0>> >> }

VARIABLES
    pq,         \* the ProductQuantizer object
    pq_file,    \* the pickle written by ProductQuantizer.save, or NoFile
    saver,      \* history: the object that wrote pq_file
    trains,     \* number of train calls so far
    res,        \* outcome of the last ProductQuantizer operation
    sq,         \* the ScalarQuantizer object
    sq_file,    \* the pickle written by ScalarQuantizer.save, or NoFile
    sq_res,     \* outcome of the last ScalarQuantizer operation
    job,        \* the running (or last) command-line job and its position
    fs,         \* embeddings file, directories and code arrays on disk
    runs,       \* number of jobs started so far
    kept,       \* history: codes a caller kept from an encode call
    ing,        \* the ingest_qdrant call and its position
    upserts,    \* the client.upsert calls made so far, each a list of points
    orch,       \* the process_and_embed invocation and its position
    embed_queue \* the embedding tasks enqueued so far

pqVars == <<pq, pq_file, saver, trains, res>>
sqVars == <<sq, sq_file, sq_res>>
jobVars == <<job, fs, runs>>
svcVars == <<ing, upserts, orch, embed_queue>>
vars == <<pqVars, sqVars, jobVars, kept, svcVars>>

\* ----------------------------------------------------------------- helpers
Min(a, b) == IF a < b THEN a ELSE b
Max(a, b) == IF a > b THEN a ELSE b

Width(mat) == IF Len(mat) = 0 THEN 0 ELSE Len(mat[1])

\* row[start:end] of numpy: a half-open 0-based range clipped to the row
Slice(row, start, end) ==
    LET lo == Min(start, Len(row))
        hi == Min(end, Len(row))
    IN  [j \in 1..Max(0, hi - lo) |-> row[lo + j]]

SliceCols(mat, start, end) == [i \in 1..Len(mat) |-> Slice(mat[i], start, end)]

\* numpy broadcasting of two trailing axes of lengths a and b
BroadcastOk(a, b) == a = b \/ a = 1 \/ b = 1
BroadcastLen(a, b) == IF a = 1 THEN b ELSE a
At(x, j) == IF Len(x) = 1 THEN x[1] ELSE x[j]

RECURSIVE SumSq(_, _, _)
SumSq(x, c, n) ==
    IF n = 0 THEN 0
    ELSE (At(x, n) - At(c, n)) * (At(x, n) - At(c, n)) + SumSq(x, c, n - 1)

\* np.linalg.norm(sub - centroid) squared; the square root is monotone, so
\* the argmin over norms is the argmin over squared norms
SqDist(x, c) == SumSq(x, c, BroadcastLen(Len(x), Len(c)))

ArgMinOneBased(d) ==
    CHOOSE k \in 1..Len(d) :
        \A j \in 1..Len(d) : d[k] <= d[j] /\ (j < k => d[j] > d[k])
\* np.argmin: 0-based position of the first minimum
ArgMin(d) ==
    (CHOOSE k \in 1..Len(d) :
        \A j \in 1..Len(d) : d[k] <= d[j] /\ (j < k => d[j] > d[k])) - 1

\* assignment into a uint8 array
CastCode(x) == x % 256

NoVal == <<>>
Result(op, status, arg, val) == [op |-> op, status |-> status, arg |-> arg, val |-> val]

\* --------------------------------------------------------- ProductQuantizer
NewPQ(M, K, D) ==
    [n_subspaces |-> M, n_centroids |-> K, vector_dim |-> D,
     subvector_dim |-> D \div M, codebooks |-> <<>>, is_trained |-> FALSE]

\* kmeans.fit(subvectors) raises ValueError on fewer samples than clusters
\* and on zero-width input
KMeansFails(subvectors, K) == Len(subvectors) < K \/ Width(subvectors) = 0

RECURSIVE RowKey(_)
RowKey(row) ==
    IF Len(row) = 0 THEN 0
    ELSE row[Len(row)] + 4 * RowKey(SubSeq(row, 1, Len(row) - 1))

\* kmeans.fit(subvectors).cluster_centers_ : K centroids of the width of the
\* slice.  MiniBatchKMeans is a library with random_state=42, a fixed function
\* of its input, modelled by its contract: K centroids minimising the
\* within-cluster distance.  Every sample of TrainSets has at most K distinct
\* rows, where the minimum is zero: every distinct row is a centroid.  Their
\* order is the library's; it is fixed here as the ascending one, and the
\* centroids left over repeat the last one.
KMeansFit(subvectors, K) ==
    LET rows == {subvectors[i] : i \in 1..Len(subvectors)}
        rank(r) == Cardinality({x \in rows : RowKey(x) < RowKey(r)}) + 1
    IN  [k \in 1..K |-> CHOOSE r \in rows : rank(r) = Min(k, Cardinality(rows))]

\* np.random.choice(len(vectors), n_samples, replace=False): any n_samples
\* distinct rows in any order
Sample(vectors, n_samples) ==
    IF Len(vectors) > n_samples
    THEN {[j \in 1..n_samples |-> vectors[idx[j]]] :
            idx \in {f \in [1..n_samples -> 1..Len(vectors)] :
                        \A a, b \in 1..n_samples : a # b => f[a] # f[b]}}
    ELSE {vectors}

TrainSlice(obj, sample, m) ==
    SliceCols(sample, (m - 1) * obj.subvector_dim,
              (m - 1) * obj.subvector_dim + obj.subvector_dim)

\* subspaces fitted before the first failing kmeans.fit
TrainFitted(obj, sample) ==
    {m \in 1..obj.n_subspaces :
        \A q \in 1..m : ~KMeansFails(TrainSlice(obj, sample, q), obj.n_centroids)}

\* self.codebooks.append(kmeans.cluster_centers_) for each fitted subspace
TrainAppend(obj, sample) ==
    obj.codebooks \o
        [m \in TrainFitted(obj, sample) |->
            KMeansFit(TrainSlice(obj, sample, m), obj.n_centroids)]

EncodeStep(obj, vectors, m) ==
    LET start == (m - 1) * obj.subvector_dim
        w == Width(SliceCols(vectors, start, start + obj.subvector_dim))
        d == Width(obj.codebooks[m])
    IN  IF ~BroadcastOk(w, d) THEN "BroadcastError"
        ELSE IF m > obj.n_subspaces THEN "IndexError"
        ELSE "ok"

EncodeCode(obj, row, m) ==
    LET start == (m - 1) * obj.subvector_dim
        sub == Slice(row, start, start + obj.subvector_dim)
        codebook == obj.codebooks[m]
        distances == [k \in 1..Len(codebook) |-> SqDist(sub, codebook[k])]
    IN  CastCode(ArgMin(distances))

EncodeLoop(obj, vectors) ==
    LET bad == {m \in 1..Len(obj.codebooks) : EncodeStep(obj, vectors, m) # "ok"}
        first == CHOOSE m \in bad : \A q \in bad : m <= q
    IN  IF bad # {}
        THEN Result("encode", EncodeStep(obj, vectors, first), vectors, NoVal)
        ELSE Result("encode", "ok", vectors,
                    [i \in 1..Len(vectors) |->
                        [m \in 1..obj.n_subspaces |->
                            IF m <= Len(obj.codebooks)
                            THEN EncodeCode(obj, vectors[i], m) ELSE 0]])

EncodeNoTrainedCheck(obj, vectors) == EncodeLoop(obj, vectors)
Encode(obj, vectors) ==
    IF ~obj.is_trained
    THEN Result("encode", "NotTrained", vectors, NoVal)
    ELSE EncodeLoop(obj, vectors)

DecodeStep(obj, codes, m) ==
    LET start == Min((m - 1) * obj.subvector_dim, obj.vector_dim)
        end == Min((m - 1) * obj.subvector_dim + obj.subvector_dim, obj.vector_dim)
        d == Width(obj.codebooks[m])
    IN  IF m > Width(codes) THEN "IndexError"
        ELSE IF \E i \in 1..Len(codes) : codes[i][m] >= Len(obj.codebooks[m])
             THEN "IndexError"
        ELSE IF ~(d = end - start \/ d = 1) THEN "BroadcastError"
        ELSE "ok"

\* the last codebook whose slice covers 0-based column j writes it
DecodeCell(obj, code, j) ==
    LET writers == {m \in 1..Len(obj.codebooks) :
                       /\ (m - 1) * obj.subvector_dim <= j
                       /\ j < (m - 1) * obj.subvector_dim + obj.subvector_dim}
        m == CHOOSE q \in writers : \A r \in writers : r <= q
    IN  IF writers = {} THEN 0
        ELSE At(obj.codebooks[m][code[m] + 1], j - (m - 1) * obj.subvector_dim + 1)

Decode(obj, codes) ==
    LET bad == {m \in 1..Len(obj.codebooks) : DecodeStep(obj, codes, m) # "ok"}
        first == CHOOSE m \in bad : \A q \in bad : m <= q
    IN  IF bad # {}
        THEN Result("decode", DecodeStep(obj, codes, first), codes, NoVal)
        ELSE Result("decode", "ok", codes,
                    [i \in 1..Len(codes) |->
                        [j \in 1..obj.vector_dim |-> DecodeCell(obj, codes[i], j - 1)]])

SaveData(obj) ==
    [n_subspaces |-> obj.n_subspaces, n_centroids |-> obj.n_centroids,
     vector_dim |-> obj.vector_dim, codebooks |-> obj.codebooks,
     is_trained |-> obj.is_trained]

LoadDataKeepFlag(obj, data) ==
    [obj EXCEPT !.n_subspaces = data.n_subspaces,
                !.n_centroids = data.n_centroids,
                !.vector_dim = data.vector_dim,
                !.codebooks = data.codebooks]
LoadData(obj, data) ==
    [obj EXCEPT !.n_subspaces = data.n_subspaces,
                !.n_centroids = data.n_centroids,
                !.vector_dim = data.vector_dim,
                !.codebooks = data.codebooks,
                !.is_trained = data.is_trained]

NoFile == [missing |-> TRUE]

\* ---------------------------------------------------------- ScalarQuantizer
None == << >>
NewSQ == [min_val |-> None, max_val |-> None, is_fitted |-> FALSE]

\* the 1e-8 of quantize, in units of 1e-8
Eps == 1

ColMin(vectors, j) ==
    CHOOSE x \in {vectors[i][j] : i \in 1..Len(vectors)} :
        \A i \in 1..Len(vectors) : x <= vectors[i][j]
ColMax(vectors, j) ==
    CHOOSE x \in {vectors[i][j] : i \in 1..Len(vectors)} :
        \A i \in 1..Len(vectors) : x >= vectors[i][j]

\* float -> integer conversion of astype: the fraction is dropped
Trunc(num, den) == IF num >= 0 THEN num \div den ELSE -((-num) \div den)

\* (vectors - min_val) / (max_val - min_val + 1e-8) * 255, then the fraction
\* dropped, in exact arithmetic
ScaledNoShift(obj, v, j) ==
    Trunc(255 * v, obj.max_val[j] - obj.min_val[j] + Eps)
Scaled(obj, v, j) ==
    Trunc(255 * (v - obj.min_val[j]), obj.max_val[j] - obj.min_val[j] + Eps)

\* astype(np.uint8) of an integral value.  Outside 0..255 the C conversion is
\* undefined and the outcome is the build's: x86 builds keep the low byte,
\* ARM builds first turn a negative value into 0.
Builds == {"x86", "arm"}
CastUint8(x, build) ==
    IF x \in 0..255 THEN x
    ELSE IF x < 0 /\ build = "arm" THEN 0
    ELSE x % 256

QuantizeFirstRow(obj, vectors, build) ==
    [i \in 1..Len(vectors) |->
        [j \in 1..Len(vectors[1]) |->
            CastUint8(Scaled(obj, vectors[1][j], j), build)]]
Quantize(obj, vectors, build) ==
    [i \in 1..Len(vectors) |->
        [j \in 1..Len(vectors[i]) |->
            CastUint8(Scaled(obj, vectors[i][j], j), build)]]

\* quantized / 255 * (max_val - min_val) + min_val, as a multiple of 1/255
Dequantize(obj, quantized) ==
    [i \in 1..Len(quantized) |->
        [j \in 1..Len(quantized[i]) |->
            quantized[i][j] * (obj.max_val[j] - obj.min_val[j]) + 255 * obj.min_val[j]]]

SqSaveData(obj) ==
    [min_val |-> obj.min_val, max_val |-> obj.max_val, is_fitted |-> obj.is_fitted]

SqLoadData(obj, data) ==
    [min_val |-> data.min_val, max_val |-> data.max_val, is_fitted |-> data.is_fitted]


\* ------------------------------------------------------------------ state
\* ------------------------------------------------------ jobs and history
\* ProductQuantizer(): the constructor defaults M = 8, K = 256, D = 1024,
\* scaled down to M = 2, K = 2, D = 2
DefaultPQ == NewPQ(2, 2, 2)

NoJob == [name |-> "none", pc |-> "idle", at |-> "idle", vectors |-> NoVal,
          samples |-> 0, made_dir |-> FALSE]
NewJob(name, samples, made_dir) ==
    [name |-> name, pc |-> "load_emb", at |-> "idle", vectors |-> NoVal,
     samples |-> samples, made_dir |-> made_dir]
\* an uncaught exception at the statement the job is at
Failed(j) == [j EXCEPT !.pc = "failed", !.at = j.pc]

\* the model files of the model directory are pq_file and sq_file
NewFS(emb) ==
    [emb |-> emb, model_dir |-> FALSE, output_dir |-> FALSE,
     pq_codes |-> NoFile, int8_vectors |-> NoFile]

NoIngest == [pc |-> "idle", status |-> "ok", pq_codes |-> NoVal, metadata |-> NoVal,
             batch_size |-> 0, i |-> 0]
NoOrch == [pc |-> "idle", calls |-> 0, media_id |-> "", media_type |-> "",
           upload_result |-> NoFile, ret |-> NoFile, before |-> 0, enqueued |-> 0]

\* one more encode / decode call since the caller kept codes
Called(k) == IF k = NoVal THEN k ELSE [k EXCEPT !.calls = Min(k.calls + 1, 2)]

Init ==
    /\ \E M \in SubspaceChoices, K \in CentroidChoices, D \in DimChoices :
          D % M = 0 /\ pq = NewPQ(M, K, D)
    /\ pq_file = NoFile
    /\ saver = NoFile
    /\ trains = 0
    /\ res = Result("none", "ok", NoVal, NoVal)
    /\ sq = NewSQ
    /\ sq_file = NoFile
    /\ sq_res = Result("none", "ok", NoVal, NoVal)
    /\ job = NoJob
    /\ fs = NewFS(NoFile)
    /\ runs = 0
    /\ kept = NoVal
    /\ ing = NoIngest
    /\ upserts = << >>
    /\ orch = NoOrch
    /\ embed_queue = << >>

\* pq = ProductQuantizer(M, K, D)
Construct(M, K, D) ==
    /\ IF D % M # 0
       THEN /\ res' = Result("construct", "AssertionError", <<M, K, D>>, NoVal)
            /\ UNCHANGED pq
       ELSE /\ pq' = NewPQ(M, K, D)
            /\ res' = Result("construct", "ok", <<M, K, D>>, NoVal)
    /\ UNCHANGED <<pq_file, saver, trains, sqVars, jobVars, kept, svcVars>>

\* pq.train(vectors, n_samples)
Train(vectors, n_samples) ==
    /\ trains < MaxTrains
    /\ trains' = trains + 1
    /\ \E sample \in Sample(vectors, n_samples) :
         IF TrainFitted(pq, sample) = 1..pq.n_subspaces
         THEN /\ pq' = [pq EXCEPT !.codebooks = TrainAppend(pq, sample),
                                  !.is_trained = TRUE]
              /\ res' = Result("train", "ok", vectors, NoVal)
         ELSE /\ pq' = [pq EXCEPT !.codebooks = TrainAppend(pq, sample)]
              /\ res' = Result("train", "ValueError", vectors, NoVal)
    /\ UNCHANGED <<pq_file, saver, sqVars, jobVars, kept, svcVars>>

EncodeCallResetting(vectors) ==
    /\ res' = Encode(pq, vectors)
    /\ pq' = [pq EXCEPT !.codebooks = << >>]
    /\ kept' = Called(kept)
    /\ UNCHANGED <<pq_file, saver, trains, sqVars, jobVars, svcVars>>
\* pq.encode(vectors)
EncodeCall(vectors) ==
    /\ res' = Encode(pq, vectors)
    /\ kept' = Called(kept)
    /\ UNCHANGED <<pq, pq_file, saver, trains, sqVars, jobVars, svcVars>>

\* pq.decode(codes)
DecodeCall(codes) ==
    /\ res' = Decode(pq, codes)
    /\ kept' = Called(kept)
    /\ UNCHANGED <<pq, pq_file, saver, trains, sqVars, jobVars, svcVars>>

\* pq.save(path)
Save ==
    /\ pq_file' = SaveData(pq)
    /\ saver' = pq
    /\ res' = Result("save", "ok", NoVal, NoVal)
    /\ UNCHANGED <<pq, trains, sqVars, jobVars, kept, svcVars>>

\* pq.load(path)
Load ==
    /\ IF pq_file = NoFile
       THEN /\ res' = Result("load", "FileNotFoundError", NoVal, NoVal)
            /\ UNCHANGED pq
       ELSE /\ pq' = LoadData(pq, pq_file)
            /\ res' = Result("load", "ok", NoVal, NoVal)
    /\ UNCHANGED <<pq_file, saver, trains, sqVars, jobVars, kept, svcVars>>

\* numpy matrices: every row of a batch has the same width
Batches(rows) ==
    UNION {{mat \in [1..n -> rows] : \A i \in 1..n : Len(mat[i]) = Len(mat[1])}
              : n \in 1..MaxRows}
EncodeInputs == Batches(EncodeRows)
CodeMatrices == Batches(CodeRows)

Next ==
    \/ \E M \in SubspaceChoices, K \in CentroidChoices, D \in DimChoices : Construct(M, K, D)
    \/ \E vectors \in TrainSets, n_samples \in SampleSizes : Train(vectors, n_samples)
    \/ \E vectors \in EncodeInputs : EncodeCall(vectors)
    \/ \E codes \in CodeMatrices : DecodeCall(codes)
    \/ Save
    \/ Load

Spec == Init /\ [][Next]_vars

\* codes = pq.encode(vectors): the caller keeps the codes it was returned
Keep ==
    /\ res.op = "encode" /\ res.status = "ok"
    /\ kept' = [model |-> trains, arg |-> res.arg, val |-> res.val, calls |-> 0]
    /\ UNCHANGED <<pqVars, sqVars, jobVars, svcVars>>

NextDet ==
    \/ \E vectors \in TrainSets, n_samples \in SampleSizes : Train(vectors, n_samples)
    \/ \E vectors \in EncodeInputs : EncodeCall(vectors)
    \/ \E codes \in CodeMatrices : DecodeCall(codes)
    \/ Keep

SpecDet == Init /\ [][NextDet]_vars

\* sq.fit(vectors)
Fit(vectors) ==
    /\ IF Len(vectors) = 0
       THEN /\ sq_res' = Result("fit", "ValueError", vectors, NoVal)
            /\ UNCHANGED sq
       ELSE /\ sq' = [min_val |-> [j \in 1..Width(vectors) |-> ColMin(vectors, j)],
                      max_val |-> [j \in 1..Width(vectors) |-> ColMax(vectors, j)],
                      is_fitted |-> TRUE]
            /\ sq_res' = Result("fit", "ok", vectors, NoVal)
    /\ UNCHANGED <<sq_file, pqVars, jobVars, kept, svcVars>>

QuantizeCallRefitting(vectors) ==
    /\ IF ~sq.is_fitted
       THEN sq_res' = Result("quantize", "NotFitted", vectors, NoVal) /\ UNCHANGED sq
       ELSE /\ \E build \in Builds :
                 sq_res' = Result("quantize", "ok", vectors, Quantize(sq, vectors, build))
            /\ sq' = [sq EXCEPT !.max_val = [j \in 1..Len(sq.max_val) |->
                                                Max(sq.max_val[j], ColMax(vectors, j))]]
    /\ UNCHANGED <<sq_file, pqVars, jobVars, kept, svcVars>>
\* sq.quantize(vectors)
QuantizeCall(vectors) ==
    /\ IF ~sq.is_fitted
       THEN sq_res' = Result("quantize", "NotFitted", vectors, NoVal)
       ELSE \E build \in Builds :
               sq_res' = Result("quantize", "ok", vectors, Quantize(sq, vectors, build))
    /\ UNCHANGED <<sq, sq_file, pqVars, jobVars, kept, svcVars>>

\* sq.dequantize(quantized)
DequantizeCall(quantized) ==
    /\ IF sq.min_val = None
       THEN sq_res' = Result("dequantize", "TypeError", quantized, NoVal)
       ELSE sq_res' = Result("dequantize", "ok", quantized, Dequantize(sq, quantized))
    /\ UNCHANGED <<sq, sq_file, pqVars, jobVars, kept, svcVars>>

\* sq.save(path)
SqSave ==
    /\ sq_file' = SqSaveData(sq)
    /\ sq_res' = Result("save", "ok", NoVal, NoVal)
    /\ UNCHANGED <<sq, pqVars, jobVars, kept, svcVars>>

\* sq.load(path)
SqLoad ==
    /\ IF sq_file = NoFile
       THEN /\ sq_res' = Result("load", "FileNotFoundError", NoVal, NoVal)
            /\ UNCHANGED sq
       ELSE /\ sq' = SqLoadData(sq, sq_file)
            /\ sq_res' = Result("load", "ok", NoVal, NoVal)
    /\ UNCHANGED <<sq_file, pqVars, jobVars, kept, svcVars>>

SqBatches(values) ==
    UNION {[1..n -> [1..1 -> values]] : n \in 1..MaxSqRows}
FitInputs == SqBatches(SqValues) \cup {<< >>}
QuantizeInputs == SqBatches(SqValues)
DequantizeInputs == SqBatches(SqBytes)

NextSQ ==
    \/ \E vectors \in FitInputs : Fit(vectors)
    \/ \E vectors \in QuantizeInputs : QuantizeCall(vectors)
    \/ \E quantized \in DequantizeInputs : DequantizeCall(quantized)
    \/ SqSave
    \/ SqLoad

InitSQ == Init /\ pq = NewPQ(1, 2, 1)

SpecSQ == InitSQ /\ [][NextSQ]_vars

\* ------------------------------- both quantizers used by one caller
NextFrame ==
    \/ \E vectors \in TrainSets, n_samples \in SampleSizes : Train(vectors, n_samples)
    \/ \E vectors \in FrameVectors : EncodeCall(vectors)
    \/ \E codes \in FrameCodes : DecodeCall(codes)
    \/ Save
    \/ Load
    \/ \E vectors \in FrameFit : Fit(vectors)
    \/ \E vectors \in FrameQuantize : QuantizeCall(vectors)
    \/ \E quantized \in FrameBytes : DequantizeCall(quantized)
    \/ SqSave
    \/ SqLoad

SpecFrame == InitSQ /\ [][NextFrame]_vars

\* ------------------------------------------------- pq_train.py: main
Idle == job.pc \in {"idle", "done", "failed"}
JobAt(name, pc) == job.name = name /\ job.pc = pc
Goto(pc) == [job EXCEPT !.pc = pc]

\* parse_args; output_dir.mkdir(parents=True, exist_ok=True)
TrainJobStart(samples) ==
    /\ Idle /\ runs < MaxRuns
    /\ runs' = runs + 1
    /\ job' = NewJob("train", samples, ~fs.model_dir)
    /\ fs' = [fs EXCEPT !.model_dir = TRUE]
    /\ UNCHANGED <<pqVars, sqVars, kept, svcVars>>

\* vectors = np.load(args.embeddings)
TrainJobLoadEmb ==
    /\ JobAt("train", "load_emb")
    /\ job' = IF fs.emb = NoFile THEN Failed(job)
              ELSE [job EXCEPT !.pc = "train", !.vectors = fs.emb]
    /\ UNCHANGED <<pqVars, sqVars, fs, runs, kept, svcVars>>

\* pq = ProductQuantizer(); pq.train(vectors, n_samples=args.samples)
TrainJobTrain ==
    /\ JobAt("train", "train")
    /\ \E sample \in Sample(job.vectors, job.samples) :
         IF TrainFitted(DefaultPQ, sample) = 1..DefaultPQ.n_subspaces
         THEN /\ pq' = [DefaultPQ EXCEPT !.codebooks = TrainAppend(DefaultPQ, sample),
                                         !.is_trained = TRUE]
              /\ res' = Result("train", "ok", job.vectors, NoVal)
              /\ job' = Goto("save_pq")
         ELSE /\ pq' = [DefaultPQ EXCEPT !.codebooks = TrainAppend(DefaultPQ, sample)]
              /\ res' = Result("train", "ValueError", job.vectors, NoVal)
              /\ job' = Failed(job)
    /\ UNCHANGED <<pq_file, saver, trains, sqVars, fs, runs, kept, svcVars>>

\* pq.save(output_dir / "pq_codebook.pkl"); open or dump may raise OSError
TrainJobSavePQ ==
    /\ JobAt("train", "save_pq")
    /\ \E io_ok \in BOOLEAN :
         IF io_ok
         THEN /\ pq_file' = SaveData(pq)
              /\ saver' = pq
              /\ job' = Goto("fit")
         ELSE /\ job' = Failed(job)
              /\ UNCHANGED <<pq_file, saver>>
    /\ UNCHANGED <<pq, trains, res, sqVars, fs, runs, kept, svcVars>>

\* sq = ScalarQuantizer(); sq.fit(vectors)
TrainJobFit ==
    /\ JobAt("train", "fit")
    /\ IF Len(job.vectors) = 0
       THEN /\ sq' = NewSQ
            /\ sq_res' = Result("fit", "ValueError", job.vectors, NoVal)
            /\ job' = Failed(job)
       ELSE /\ sq' = [min_val |-> [j \in 1..Width(job.vectors) |-> ColMin(job.vectors, j)],
                      max_val |-> [j \in 1..Width(job.vectors) |-> ColMax(job.vectors, j)],
                      is_fitted |-> TRUE]
            /\ sq_res' = Result("fit", "ok", job.vectors, NoVal)
            /\ job' = Goto("save_sq")
    /\ UNCHANGED <<pqVars, sq_file, fs, runs, kept, svcVars>>

\* sq.save(output_dir / "scalar_quantizer.pkl"); may raise OSError
TrainJobSaveSQ ==
    /\ JobAt("train", "save_sq")
    /\ \E io_ok \in BOOLEAN :
         IF io_ok
         THEN sq_file' = SqSaveData(sq) /\ job' = Goto("done")
         ELSE job' = Failed(job) /\ UNCHANGED sq_file
    /\ UNCHANGED <<pqVars, sq, sq_res, fs, runs, kept, svcVars>>

\* --------------------------------------------------- compress.py: main
\* parse_args; output_dir.mkdir(parents=True, exist_ok=True)
CompressStart ==
    /\ Idle /\ runs < MaxRuns
    /\ runs' = runs + 1
    /\ job' = NewJob("compress", 0, ~fs.output_dir)
    /\ fs' = [fs EXCEPT !.output_dir = TRUE]
    /\ UNCHANGED <<pqVars, sqVars, kept, svcVars>>

\* vectors = np.load(emb_file)
CompressLoadEmb ==
    /\ JobAt("compress", "load_emb")
    /\ job' = IF fs.emb = NoFile THEN Failed(job)
              ELSE [job EXCEPT !.pc = "load_pq", !.vectors = fs.emb]
    /\ UNCHANGED <<pqVars, sqVars, fs, runs, kept, svcVars>>

\* pq = ProductQuantizer(); pq.load(model_dir / "pq_codebook.pkl")
CompressLoadPQ ==
    /\ JobAt("compress", "load_pq")
    /\ IF pq_file = NoFile
       THEN /\ pq' = DefaultPQ
            /\ res' = Result("load", "FileNotFoundError", NoVal, NoVal)
            /\ job' = Failed(job)
       ELSE /\ pq' = LoadData(DefaultPQ, pq_file)
            /\ res' = Result("load", "ok", NoVal, NoVal)
            /\ job' = Goto("load_sq")
    /\ UNCHANGED <<pq_file, saver, trains, sqVars, fs, runs, kept, svcVars>>

CompressLoadSQLenient ==
    /\ JobAt("compress", "load_sq")
    /\ sq' = IF sq_file = NoFile THEN NewSQ ELSE SqLoadData(NewSQ, sq_file)
    /\ sq_res' = Result("load", "ok", NoVal, NoVal)
    /\ job' = Goto("encode")
    /\ UNCHANGED <<pqVars, sq_file, fs, runs, kept, svcVars>>
\* sq = ScalarQuantizer(); sq.load(model_dir / "scalar_quantizer.pkl")
CompressLoadSQ ==
    /\ JobAt("compress", "load_sq")
    /\ IF sq_file = NoFile
       THEN /\ sq' = NewSQ
            /\ sq_res' = Result("load", "FileNotFoundError", NoVal, NoVal)
            /\ job' = Failed(job)
       ELSE /\ sq' = SqLoadData(NewSQ, sq_file)
            /\ sq_res' = Result("load", "ok", NoVal, NoVal)
            /\ job' = Goto("encode")
    /\ UNCHANGED <<pqVars, sq_file, fs, runs, kept, svcVars>>

\* pq_codes = pq.encode(vectors)
CompressEncode ==
    /\ JobAt("compress", "encode")
    /\ res' = Encode(pq, job.vectors)
    /\ job' = IF Encode(pq, job.vectors).status = "ok" THEN Goto("quantize")
              ELSE Failed(job)
    /\ kept' = Called(kept)
    /\ UNCHANGED <<pq, pq_file, saver, trains, sqVars, fs, runs, svcVars>>

\* quantized = sq.quantize(vectors)
CompressQuantize ==
    /\ JobAt("compress", "quantize")
    /\ IF ~sq.is_fitted
       THEN /\ sq_res' = Result("quantize", "NotFitted", job.vectors, NoVal)
            /\ job' = Failed(job)
       ELSE /\ \E build \in Builds :
                 sq_res' = Result("quantize", "ok", job.vectors,
                                  Quantize(sq, job.vectors, build))
            /\ job' = Goto("save_codes")
    /\ UNCHANGED <<pqVars, sq, sq_file, fs, runs, kept, svcVars>>

\* np.save(output_dir / "pq_codes.npy", pq_codes); may raise OSError
CompressSaveCodes ==
    /\ JobAt("compress", "save_codes")
    /\ \E io_ok \in BOOLEAN :
         IF io_ok
         THEN fs' = [fs EXCEPT !.pq_codes = res.val] /\ job' = Goto("save_int8")
         ELSE job' = Failed(job) /\ UNCHANGED fs
    /\ UNCHANGED <<pqVars, sqVars, runs, kept, svcVars>>

\* np.save(output_dir / "int8_vectors.npy", quantized); may raise OSError
CompressSaveInt8 ==
    /\ JobAt("compress", "save_int8")
    /\ \E io_ok \in BOOLEAN :
         IF io_ok
         THEN fs' = [fs EXCEPT !.int8_vectors = sq_res.val] /\ job' = Goto("done")
         ELSE job' = Failed(job) /\ UNCHANGED fs
    /\ UNCHANGED <<pqVars, sqVars, runs, kept, svcVars>>

NextJobs ==
    \/ \E samples \in JobSamples : TrainJobStart(samples)
    \/ TrainJobLoadEmb
    \/ TrainJobTrain
    \/ TrainJobSavePQ
    \/ TrainJobFit
    \/ TrainJobSaveSQ
    \/ CompressStart
    \/ CompressLoadEmb
    \/ CompressLoadPQ
    \/ CompressLoadSQ
    \/ CompressEncode
    \/ CompressQuantize
    \/ CompressSaveCodes
    \/ CompressSaveInt8

InitJobs ==
    /\ pq = DefaultPQ
    /\ pq_file = NoFile
    /\ saver = NoFile
    /\ trains = 0
    /\ res = Result("none", "ok", NoVal, NoVal)
    /\ sq = NewSQ
    /\ sq_file = NoFile
    /\ sq_res = Result("none", "ok", NoVal, NoVal)
    /\ job = NoJob
    /\ \E emb \in EmbFiles : fs = NewFS(emb)
    /\ runs = 0
    /\ kept = NoVal
    /\ ing = NoIngest
    /\ upserts = << >>
    /\ orch = NoOrch
    /\ embed_queue = << >>

SpecJobs == InitJobs /\ [][NextJobs]_vars

\* ------------------------------------------- ingest_qdrant.py: ingest_qdrant
\* np.load(pq_codes) and pd.read_csv(metadata_csv) of files with n rows; the
\* data frame has the index labels 0..n-1
CodesFile(n) == [k \in 1..n |-> <<k>>]
MetadataFile(n) == [k \in 1..n |-> [media_id |-> 100 + k]]

BatchPosAbsolute(idx, batch_size) == idx
\* idx % batch_size: the position in the batch of the row with label idx
BatchPos(idx, batch_size) == idx % batch_size

\* index labels of metadata.iloc[i:i+batch_size]
BatchLabels(metadata, i, batch_size) ==
    [k \in 1..Len(Slice(metadata, i, i + batch_size)) |-> i + k - 1]

\* the PointStruct built from the row with label idx
Point(batch_codes, metadata, idx, batch_size) ==
    [id |-> metadata[idx + 1].media_id,
     vector |-> batch_codes[BatchPos(idx, batch_size) + 1],
     payload |-> metadata[idx + 1]]

\* pq_codes = np.load(..); metadata = pd.read_csv(..); assert len == len
IngestStart(n_codes, n_meta, batch_size) ==
    /\ ing.pc = "idle"
    /\ ing' = [pc |-> IF n_codes = n_meta THEN "loop" ELSE "failed",
               status |-> IF n_codes = n_meta THEN "ok" ELSE "AssertionError",
               pq_codes |-> CodesFile(n_codes), metadata |-> MetadataFile(n_meta),
               batch_size |-> batch_size, i |-> 0]
    /\ UNCHANGED <<pqVars, sqVars, jobVars, kept, upserts, orch, embed_queue>>

\* one iteration of for i in range(0, len(metadata), batch_size)
IngestBatch ==
    /\ ing.pc = "loop" /\ ing.i < Len(ing.metadata)
    /\ LET batch_codes == Slice(ing.pq_codes, ing.i, ing.i + ing.batch_size)
           labels == BatchLabels(ing.metadata, ing.i, ing.batch_size)
       IN  IF \E k \in 1..Len(labels) :
                  BatchPos(labels[k], ing.batch_size) >= Len(batch_codes)
           THEN /\ ing' = [ing EXCEPT !.pc = "failed", !.status = "IndexError"]
                /\ UNCHANGED upserts
           ELSE /\ upserts' = Append(upserts,
                        [k \in 1..Len(labels) |->
                            Point(batch_codes, ing.metadata, labels[k], ing.batch_size)])
                /\ ing' = [ing EXCEPT !.i = ing.i + ing.batch_size]
    /\ UNCHANGED <<pqVars, sqVars, jobVars, kept, orch, embed_queue>>

\* the range is exhausted
IngestFinish ==
    /\ ing.pc = "loop" /\ ing.i >= Len(ing.metadata)
    /\ ing' = [ing EXCEPT !.pc = "done"]
    /\ UNCHANGED <<pqVars, sqVars, jobVars, kept, upserts, orch, embed_queue>>

NextIngest ==
    \/ \E n_codes \in 0..MaxIngestRows, n_meta \in 0..MaxIngestRows,
          batch_size \in BatchSizes : IngestStart(n_codes, n_meta, batch_size)
    \/ IngestBatch
    \/ IngestFinish

SpecIngest == InitSQ /\ [][NextIngest]_vars

\* ------------------------------------------------------------ orchestrator
\* dict.get(key, default)
Get(d, key, default) == IF key \in DOMAIN d THEN d[key] ELSE default

\* the outcome of upload_file_task: the download or (for audio) the upload
\* failing ends in the exception of self.retry; a failed image thumbnail is
\* only logged and leaves thumbnail_url None
Raised == [raised |-> TRUE]
UploadFileTask(media_id, media_type, download_ok, asset_ok) ==
    IF ~download_ok THEN Raised
    ELSE IF media_type = "audio" /\ ~asset_ok THEN Raised
    ELSE [success |-> TRUE,
          local_path |-> "/tmp/" \o media_id,
          thumbnail_url |-> IF asset_ok THEN "url/" \o media_id ELSE "None",
          preview_url |-> "None"]

\* if not upload_result.get("success", False): return upload_result
CheckIgnoringSuccess(o, upload_result) == [o EXCEPT !.pc = "enqueue"]
CheckSuccess(o, upload_result) ==
    IF ~Get(upload_result, "success", FALSE)
    THEN [o EXCEPT !.pc = "returned", !.ret = upload_result]
    ELSE [o EXCEPT !.pc = "enqueue"]

\* the arguments of embed_media_task.delay
EmbedJob(o) ==
    [media_id |-> o.media_id, local_path |-> o.upload_result.local_path,
     media_type |-> o.media_type, upload_result |-> o.upload_result]

\* the backend calls process_and_embed(media_id, source_url, media_type)
OrchStart(media_id, media_type) ==
    /\ orch.pc \in {"idle", "returned", "raised"}
    /\ orch.calls < MaxCalls
    /\ orch' = [pc |-> "upload", calls |-> orch.calls + 1, media_id |-> media_id,
                media_type |-> media_type, upload_result |-> NoFile, ret |-> NoFile,
                before |-> Len(embed_queue), enqueued |-> 0]
    /\ UNCHANGED <<pqVars, sqVars, jobVars, kept, ing, upserts, embed_queue>>

\* res = upload_file_task.s(..).apply(); upload_result = res.get()
OrchUpload ==
    /\ orch.pc = "upload"
    /\ \E download_ok \in BOOLEAN, asset_ok \in BOOLEAN :
          LET r == UploadFileTask(orch.media_id, orch.media_type, download_ok, asset_ok)
          IN  orch' = IF r = Raised
                      THEN [orch EXCEPT !.pc = "raised"]
                      ELSE [orch EXCEPT !.pc = "check", !.upload_result = r]
    /\ UNCHANGED <<pqVars, sqVars, jobVars, kept, ing, upserts, embed_queue>>

\* the test of the upload result
OrchCheck ==
    /\ orch.pc = "check"
    /\ orch' = CheckSuccess(orch, orch.upload_result)
    /\ UNCHANGED <<pqVars, sqVars, jobVars, kept, ing, upserts, embed_queue>>

\* embed_job = embed_media_task.delay(..); return {"status": "enqueued", ..}
OrchEnqueue ==
    /\ orch.pc = "enqueue"
    /\ \E broker_ok \in BOOLEAN :
          IF "local_path" \notin DOMAIN orch.upload_result \/ ~broker_ok
          THEN /\ orch' = [orch EXCEPT !.pc = "raised"]
               /\ UNCHANGED embed_queue
          ELSE /\ embed_queue' = Append(embed_queue, EmbedJob(orch))
               /\ orch' = [orch EXCEPT !.pc = "returned",
                                       !.enqueued = orch.enqueued + 1,
                                       !.ret = [status |-> "enqueued",
                                                media_id |-> orch.media_id,
                                                embed_task_id |-> Len(embed_queue) + 1]]
    /\ UNCHANGED <<pqVars, sqVars, jobVars, kept, ing, upserts>>

NextOrch ==
    \/ \E media_id \in MediaIds, media_type \in MediaTypes : OrchStart(media_id, media_type)
    \/ OrchUpload
    \/ OrchCheck
    \/ OrchEnqueue

SpecOrch == InitSQ /\ [][NextOrch]_vars

\* ------------------------------------------------------------------ claims
Abs(x) == IF x < 0 THEN -x ELSE x
Clamp(x) == IF x < 0 THEN 0 ELSE IF x > 255 THEN 255 ELSE x

RECURSIVE EuclidSq(_, _, _)
EuclidSq(x, c, n) ==
    IF n = 0 THEN 0
    ELSE (x[n] - c[n]) * (x[n] - c[n]) + EuclidSq(x, c, n - 1)

\* the m-th subvector of a row of the model's width: columns
\* [(m-1)*D/M, m*D/M), 0-based and half-open
Subvector(obj, row, m) ==
    [j \in 1..(obj.vector_dim \div obj.n_subspaces) |->
        row[(m - 1) * (obj.vector_dim \div obj.n_subspaces) + j]]

WidthDInputs(obj) == {v \in EncodeInputs : Width(v) = obj.vector_dim}

\* C1: every code matrix returned by encode of a model with K <= 256 has as
\* many rows as the input, n_subspaces columns, and entries in 0..K-1.
C1_CodesInRange ==
    (res.op = "encode" /\ res.status = "ok" /\ pq.n_centroids <= 256) =>
        /\ Len(res.val) = Len(res.arg)
        /\ \A i \in 1..Len(res.val) :
              /\ Len(res.val[i]) = pq.n_subspaces
              /\ \A m \in 1..pq.n_subspaces : res.val[i][m] \in 0..(pq.n_centroids - 1)

\* C1 witness: a trained model encoded a batch of two rows of its own width
\* and both the lowest and the highest centroid number occur in the codes.
C1_Witness ==
    /\ res.op = "encode" /\ res.status = "ok" /\ pq.is_trained
    /\ Len(res.arg) = 2 /\ Width(res.arg) = pq.vector_dim
    /\ \E i \in 1..2, m \in 1..pq.n_subspaces : res.val[i][m] = pq.n_centroids - 1
    /\ \E i \in 1..2, m \in 1..pq.n_subspaces : res.val[i][m] = 0

\* C2: for every row and subspace m of a width-D input, the code returned by
\* encode is the number of the centroid of codebook m nearest to the row's
\* m-th subvector, the lowest such number on a tie.
C2_NearestCentroid ==
    (res.op = "encode" /\ res.status = "ok" /\ Width(res.arg) = pq.vector_dim) =>
        \A i \in 1..Len(res.arg) : \A m \in 1..pq.n_subspaces :
            LET sub == Subvector(pq, res.arg[i], m)
                k == res.val[i][m] + 1
                dist(c) == EuclidSq(sub, c, Len(sub))
            IN  /\ m <= Len(pq.codebooks)
                /\ k <= Len(pq.codebooks[m])
                /\ \A j \in 1..Len(pq.codebooks[m]) : Len(pq.codebooks[m][j]) = Len(sub)
                /\ \A j \in 1..Len(pq.codebooks[m]) :
                      /\ dist(pq.codebooks[m][k]) <= dist(pq.codebooks[m][j])
                      /\ j < k => dist(pq.codebooks[m][k]) < dist(pq.codebooks[m][j])

\* C3: encode of a trained model on a matrix whose width differs from
\* vector_dim fails (with any error) and returns no codes.
C3_WidthMismatchRejected ==
    (res.op = "encode" /\ pq.is_trained /\ Width(res.arg) # pq.vector_dim) =>
        res.status # "ok" /\ res.val = NoVal

\* C4: after load of an artifact saved by a trained model, encode of the
\* receiving object agrees with encode of the saving object on every input
\* of the saved model's width.
C4_SaveLoadRoundTrip ==
    (res.op = "load" /\ res.status = "ok" /\ saver.is_trained) =>
        \A v \in WidthDInputs(saver) :
            /\ Encode(pq, v).status = Encode(saver, v).status
            /\ Encode(pq, v).val = Encode(saver, v).val

\* C5: after a train call, a trained model holds exactly n_subspaces
\* codebooks and encode succeeds on every input of width vector_dim.
C5_RetrainReplaces ==
    (res.op = "train" /\ pq.is_trained) =>
        /\ Len(pq.codebooks) = pq.n_subspaces
        /\ \A v \in WidthDInputs(pq) : Encode(pq, v).status = "ok"

\* C6: every byte returned by quantize is the scaled value clamped into
\* 0..255: 0 below the fitted minimum, 255 above the fitted maximum.
C6_QuantizeSaturates ==
    (sq_res.op = "quantize" /\ sq_res.status = "ok") =>
        \A i \in 1..Len(sq_res.arg) : \A j \in 1..Len(sq_res.arg[i]) :
            sq_res.val[i][j] = Clamp(Scaled(sq, sq_res.arg[i][j], j))

\* C7: quantize of the fitted maximum returns 255 in every dimension with
\* min < max, and dequantize of that byte is within (max - min) / 255 of the
\* maximum.
C7_MaxMapsTo255 ==
    (sq_res.op = "quantize" /\ sq_res.status = "ok") =>
        \A i \in 1..Len(sq_res.arg) : \A j \in 1..Len(sq_res.arg[i]) :
            (sq_res.arg[i][j] = sq.max_val[j] /\ sq.min_val[j] < sq.max_val[j]) =>
                /\ sq_res.val[i][j] = 255
                /\ Abs(Dequantize(sq, sq_res.val)[i][j] - 255 * sq.max_val[j])
                      <= sq.max_val[j] - sq.min_val[j]

\* C8: for every element inside the fitted range, dequantize of quantize is
\* within (max - min) / 255 of the element.
C8_RoundTripError ==
    (sq_res.op = "quantize" /\ sq_res.status = "ok") =>
        \A i \in 1..Len(sq_res.arg) : \A j \in 1..Len(sq_res.arg[i]) :
            (sq.min_val[j] <= sq_res.arg[i][j] /\ sq_res.arg[i][j] <= sq.max_val[j]) =>
                Abs(Dequantize(sq, sq_res.val)[i][j] - 255 * sq_res.arg[i][j])
                    <= sq.max_val[j] - sq.min_val[j]

\* C9: encode of an untrained model fails with the not-trained error and
\* returns no codes, and a model loaded from an artifact whose trained flag
\* is false is such a model.
C9_EncodeUntrainedFails ==
    /\ (res.op = "encode" /\ ~pq.is_trained) =>
          res.status = "NotTrained" /\ res.val = NoVal
    /\ (res.op = "load" /\ res.status = "ok" /\ ~pq_file.is_trained) =>
          \A v \in EncodeInputs : Encode(pq, v).status = "NotTrained"

\* C9 witness: encode was refused on an object whose configuration came from
\* an untrained artifact (its subvector_dim no longer matches, which only
\* load brings about).
C9_Witness ==
    /\ res.op = "encode" /\ res.status = "NotTrained"
    /\ pq_file # NoFile /\ ~pq_file.is_trained
    /\ SaveData(pq) = pq_file
    /\ pq.subvector_dim * pq.n_subspaces # pq.vector_dim

\* C10: decode of an untrained model fails and returns no reconstruction.
C10_DecodeUntrainedFails ==
    (res.op = "decode" /\ ~pq.is_trained) =>
        res.status # "ok" /\ res.val = NoVal

\* C11: quantize and dequantize of a ScalarQuantizer that is not fitted each
\* fail with the not-fitted precondition error and return nothing.
C11_SqUnfittedFails ==
    (sq_res.op \in {"quantize", "dequantize"} /\ ~sq.is_fitted) =>
        sq_res.status = "NotFitted" /\ sq_res.val = NoVal

\* C12: a load that succeeds never changes the configuration (M, K, D) of
\* the receiving object: an artifact of another layout is refused.
C12_IncompatibleLoadRejected ==
    [][(res'.op = "load" /\ res'.status = "ok") =>
          /\ pq_file.n_subspaces = pq.n_subspaces
          /\ pq_file.n_centroids = pq.n_centroids
          /\ pq_file.vector_dim = pq.vector_dim]_vars

\* C18: quantize of a fitted quantizer never fails, and in a dimension with
\* min = max every fitted value (the value min) quantizes to the byte 0.
C18_DegenerateDimension ==
    (sq_res.op = "quantize" /\ sq.is_fitted) =>
        /\ sq_res.status = "ok"
        /\ \A i \in 1..Len(sq_res.arg) : \A j \in 1..Len(sq_res.arg[i]) :
              (sq.min_val[j] = sq.max_val[j] /\ sq_res.arg[i][j] = sq.min_val[j]) =>
                  sq_res.val[i][j] = 0

\* C18 witness: a quantizer fitted on a constant non-zero column quantized
\* that constant.
C18_Witness ==
    /\ sq_res.op = "quantize" /\ sq_res.status = "ok" /\ sq.is_fitted
    /\ \E i \in 1..Len(sq_res.arg) :
          /\ sq.min_val[1] = sq.max_val[1] /\ sq.min_val[1] > 0
          /\ sq_res.arg[i][1] = sq.min_val[1]

\* C13: construction fails when D is not divisible by M or K > 256, train
\* fails on an input without rows, and a model that was only built or trained
\* that way is not marked trained and holds no codebooks.
C13_ConfigurationRejected ==
    /\ (res.op = "construct" /\ (res.arg[3] % res.arg[1] # 0 \/ res.arg[2] > 256)) =>
          res.status # "ok"
    /\ (res.op = "train" /\ Len(res.arg) = 0) => res.status # "ok"
    /\ (res.op = "train" /\ Len(res.arg) = 0 /\ trains = 1) =>
          ~pq.is_trained /\ pq.codebooks = <<>>
    /\ pq.n_centroids > 256 => ~pq.is_trained /\ pq.codebooks = <<>>

\* the compress job has passed, or failed at, a statement after both loads
AfterLoads ==
    /\ job.name = "compress"
    /\ \/ job.pc \in {"encode", "quantize", "save_codes", "save_int8", "done"}
       \/ job.pc = "failed" /\
          job.at \in {"encode", "quantize", "save_codes", "save_int8"}

\* C14: the compress job reaches encode, quantize and the saves only with both
\* model artifacts loaded, and a run that fails at a load has computed no
\* codes and written no code array.
C14_ModelsLoadedFirst ==
    /\ AfterLoads =>
          /\ pq_file # NoFile /\ pq = LoadData(DefaultPQ, pq_file)
          /\ sq_file # NoFile /\ sq = SqLoadData(NewSQ, sq_file)
    /\ (job.name = "compress" /\ job.pc = "failed" /\ job.at \in {"load_pq", "load_sq"}) =>
          /\ res.op # "encode" /\ sq_res.op # "quantize"
          /\ fs.pq_codes = NoFile /\ fs.int8_vectors = NoFile
    /\ (fs.pq_codes # NoFile \/ fs.int8_vectors # NoFile) =>
          pq_file # NoFile /\ sq_file # NoFile

\* C14 witness: a compress run loaded the PQ artifact, found no scalar
\* artifact, and stopped there without output.
C14_Witness ==
    /\ job.name = "compress" /\ job.pc = "failed" /\ job.at = "load_sq"
    /\ pq_file # NoFile /\ pq.is_trained /\ sq_file = NoFile
    /\ fs.pq_codes = NoFile /\ fs.int8_vectors = NoFile

\* C15: a finished compress job has written both code arrays; a failed one
\* leaves neither a single code array nor a newly created output directory.
C15_CompressAllOrNothing ==
    (job.name = "compress" /\ job.pc \in {"done", "failed"}) =>
        IF job.pc = "done"
        THEN fs.pq_codes # NoFile /\ fs.int8_vectors # NoFile
        ELSE /\ ~job.made_dir
             /\ (fs.pq_codes = NoFile) <=> (fs.int8_vectors = NoFile)

\* C16: a finished train job has written both model artifacts; a failed one
\* leaves neither a single artifact nor a newly created model directory.
C16_TrainAllOrNothing ==
    (job.name = "train" /\ job.pc \in {"done", "failed"}) =>
        IF job.pc = "done"
        THEN pq_file # NoFile /\ sq_file # NoFile
        ELSE /\ ~job.made_dir
             /\ (pq_file = NoFile) <=> (sq_file = NoFile)

\* C17: the two arrays written by a finished compress job have one row per
\* input row, and row i of each is the encoding (the quantization) of input
\* row i alone.
C17_RowOrderIdentity ==
    (job.name = "compress" /\ job.pc = "done") =>
        /\ job.vectors = fs.emb
        /\ Len(fs.pq_codes) = Len(fs.emb)
        /\ Len(fs.int8_vectors) = Len(fs.emb)
        /\ \A i \in 1..Len(fs.emb) :
              /\ fs.pq_codes[i] = Encode(pq, <<fs.emb[i]>>).val[1]
              /\ \E build \in Builds :
                    fs.int8_vectors[i] = Quantize(sq, <<fs.emb[i]>>, build)[1]

\* C17 witness: a finished compress job whose input has rows with different
\* codes and different bytes.
C17_Witness ==
    /\ job.name = "compress" /\ job.pc = "done"
    /\ \E i, k \in 1..Len(fs.emb) :
          /\ fs.pq_codes[i] # fs.pq_codes[k]
          /\ fs.int8_vectors[i] # fs.int8_vectors[k]

\* C19: the codebooks of a train job are the same for every subset the
\* sampling of that input and sample size can draw.
C19_TrainReproducible ==
    (job.name = "train" /\ job.pc = "save_pq") =>
        \A sample \in Sample(job.vectors, job.samples) :
            TrainAppend(DefaultPQ, sample) = pq.codebooks

\* C20: an encode call on a model that was not retrained since the caller
\* kept the codes of the same vectors returns those codes again, whatever
\* encode and decode calls came in between.
C20_EncodeDeterministic ==
    (kept # NoVal /\ res.op = "encode" /\ res.arg = kept.arg /\ trains = kept.model) =>
        res.status = "ok" /\ res.val = kept.val

\* C20 witness: the second encode of the kept vectors, with another call in
\* between, on a trained model that returned a non-zero code.
C20_Witness ==
    /\ kept # NoVal /\ kept.calls = 2 /\ trains = kept.model
    /\ res.op = "encode" /\ res.arg = kept.arg /\ pq.is_trained
    /\ \E i \in 1..Len(res.val) : \E m \in 1..Len(res.val[i]) : res.val[i][m] # 0

\* C21: a step of encode, decode or save leaves the ProductQuantizer object
\* (codebooks, M, K, D, trained flag) as it was, and a step of quantize,
\* dequantize or save leaves the ScalarQuantizer object (min, max, fitted
\* flag) as it was.
C21_NoMutation ==
    [][/\ (res' # res /\ res'.op \in {"encode", "decode", "save"}) => pq' = pq
       /\ (sq_res' # sq_res /\ sq_res'.op \in {"quantize", "dequantize", "save"}) =>
             sq' = sq]_vars

\* C21 witness: a trained model and a fitted quantizer, both saved, after a
\* decode and a quantize call that returned.
C21_Witness ==
    /\ pq.is_trained /\ pq_file = SaveData(pq)
    /\ sq.is_fitted /\ sq_file = SqSaveData(sq)
    /\ res.op = "decode" /\ res.status = "ok"
    /\ sq_res.op = "quantize" /\ sq_res.status = "ok"

\* C22: in every state subvector_dim is vector_dim / n_subspaces, with
\* vector_dim divisible by n_subspaces.
C22_SubvectorWidth ==
    /\ pq.vector_dim % pq.n_subspaces = 0
    /\ pq.subvector_dim * pq.n_subspaces = pq.vector_dim

\* all rows of a given width with coordinates 0 and 1
BitRows(width) == [1..width -> {0, 1}]

\* C23: the code at (row i, subspace m) is the same for every input row that
\* has the same m-th subvector, and after a first train codebook m is the
\* clustering of the m-th D/M-wide slice of the training input alone.
C23_SliceIndependence ==
    /\ (res.op = "encode" /\ res.status = "ok" /\ Width(res.arg) = pq.vector_dim) =>
          \A i \in 1..Len(res.arg) : \A m \in 1..pq.n_subspaces :
              \A row \in BitRows(pq.vector_dim) :
                  Subvector(pq, row, m) = Subvector(pq, res.arg[i], m) =>
                      /\ Encode(pq, <<row>>).status = "ok"
                      /\ Encode(pq, <<row>>).val[1][m] = res.val[i][m]
    /\ (/\ res.op = "train" /\ res.status = "ok"
        /\ Len(pq.codebooks) = pq.n_subspaces
        /\ Width(res.arg) = pq.vector_dim) =>
          \A m \in 1..pq.n_subspaces :
              pq.codebooks[m] =
                  KMeansFit(SliceCols(res.arg,
                                      (m - 1) * (pq.vector_dim \div pq.n_subspaces),
                                      m * (pq.vector_dim \div pq.n_subspaces)),
                            pq.n_centroids)

\* C24: decode of a trained model on an N x M code matrix with entries below
\* K returns N rows of width D in which the m-th D/M-wide slice of row i is
\* centroid codes[i][m] of codebook m.
C24_DecodeLooksUp ==
    (/\ res.op = "decode" /\ pq.is_trained
     /\ Width(res.arg) = pq.n_subspaces
     /\ \A i \in 1..Len(res.arg) : \A m \in 1..pq.n_subspaces :
           res.arg[i][m] < pq.n_centroids) =>
        /\ res.status = "ok"
        /\ Len(res.val) = Len(res.arg)
        /\ \A i \in 1..Len(res.arg) :
              /\ Len(res.val[i]) = pq.vector_dim
              /\ \A m \in 1..pq.n_subspaces :
                    \A j \in 1..(pq.vector_dim \div pq.n_subspaces) :
                        /\ m <= Len(pq.codebooks)
                        /\ Len(pq.codebooks[m][res.arg[i][m] + 1]) =
                              pq.vector_dim \div pq.n_subspaces
                        /\ res.val[i][(m - 1) * (pq.vector_dim \div pq.n_subspaces) + j]
                              = pq.codebooks[m][res.arg[i][m] + 1][j]

\* C26: on a trained model, encode of an input of width D succeeds, decode of
\* its codes succeeds, and encode of that reconstruction returns the same
\* codes.
C26_ReencodeFixedPoint ==
    (res.op = "encode" /\ pq.is_trained /\ Width(res.arg) = pq.vector_dim) =>
        /\ res.status = "ok"
        /\ Decode(pq, res.val).status = "ok"
        /\ Encode(pq, Decode(pq, res.val).val).status = "ok"
        /\ Encode(pq, Decode(pq, res.val).val).val = res.val

RECURSIVE Flatten(_)
Flatten(seqs) == IF Len(seqs) = 0 THEN << >> ELSE Head(seqs) \o Flatten(Tail(seqs))

\* C25: a finished ingestion has upserted one point per metadata row, in
\* batches of at most batch_size, and the point of metadata row k carries
\* code row k; an ingestion fails exactly when the two inputs differ in
\* length, and then nothing was upserted.
C25_IngestJoinsByPosition ==
    /\ ing.pc = "done" =>
          /\ Len(Flatten(upserts)) = Len(ing.metadata)
          /\ \A b \in 1..Len(upserts) : Len(upserts[b]) \in 1..ing.batch_size
          /\ \A k \in 1..Len(ing.metadata) :
                /\ Flatten(upserts)[k].id = ing.metadata[k].media_id
                /\ Flatten(upserts)[k].payload = ing.metadata[k]
                /\ Flatten(upserts)[k].vector = ing.pq_codes[k]
    /\ ing.pc = "failed" => Len(ing.pq_codes) # Len(ing.metadata)
    /\ (ing.pc # "idle" /\ Len(ing.pq_codes) # Len(ing.metadata)) =>
          /\ ing.pc = "failed" /\ ing.status = "AssertionError"
          /\ upserts = << >>

\* C25 witness: a finished ingestion of three rows in batches of two, the
\* last batch holding the single third row.
C25_Witness ==
    /\ ing.pc = "done" /\ Len(ing.metadata) = 3 /\ ing.batch_size = 2
    /\ Len(upserts) = 2 /\ Len(upserts[2]) = 1
    /\ upserts[2][1].vector = <<3>>


\* upload results a task could hand back: with success true, false or absent
UploadResults ==
    { [success |-> TRUE, local_path |-> "/tmp/m1", thumbnail_url |-> "None",
       preview_url |-> "None"],
      [success |-> FALSE, local_path |-> "/tmp/m1", error |-> "failed"],
      [success |-> FALSE, error |-> "failed"],
      [error |-> "failed"] }

\* C27: in every invocation of process_and_embed at most one embedding task
\* is enqueued, the queue grows by exactly the tasks of this invocation, a
\* task is enqueued only when the upload task has returned a result with
\* success true, and the enqueued task carries that result; an invocation
\* whose upload raised enqueues nothing; and on any upload result that is
\* not successful the test returns that result to the caller without
\* reaching the enqueue.
C27_EnqueueOnceAfterSuccess ==
    /\ orch.enqueued <= 1
    /\ Len(embed_queue) = orch.before + orch.enqueued
    /\ orch.pc \in {"upload", "check", "enqueue", "raised"} => orch.enqueued = 0
    /\ (orch.enqueued = 1 \/ orch.pc = "enqueue") =>
          /\ orch.upload_result # NoFile
          /\ Get(orch.upload_result, "success", FALSE) = TRUE
    /\ orch.enqueued = 1 =>
          /\ orch.pc = "returned"
          /\ embed_queue[Len(embed_queue)] = EmbedJob(orch)
          /\ orch.ret = [status |-> "enqueued", media_id |-> orch.media_id,
                         embed_task_id |-> Len(embed_queue)]
    /\ \A d \in UploadResults :
          ~Get(d, "success", FALSE) =>
              LET o == CheckSuccess([orch EXCEPT !.pc = "check", !.upload_result = d], d)
              IN  /\ o.pc = "returned" /\ o.ret = d
                  /\ o.enqueued = orch.enqueued

\* C27 witness: the second invocation has returned "enqueued" after a
\* successful upload, its one task being the second of the queue.
C27_Witness ==
    /\ orch.calls = 2 /\ orch.pc = "returned" /\ orch.enqueued = 1
    /\ orch.upload_result.success = TRUE
    /\ orch.before = 1 /\ Len(embed_queue) = 2
    /\ embed_queue[2].media_id = orch.media_id

====
